---- MODULE Spec2Model ----
(***************************************************************************)
(* A model of searcher/hashMatcher.cpp: the sharded in-memory hash store   *)
(* (add), the parallel Hamming-distance search (search, searchThread), the *)
(* command parser (processCommand) and the line framing of the byte stream *)
(* (readCommands), driven by the accept loop of main.                      *)
(*                                                                         *)
(* Bytes are one-character strings; a buffer, a command and a stream are   *)
(* sequences of bytes.  The server's main flow is one process with a       *)
(* program counter (pc); each search thread is a process of its own.       *)
(***************************************************************************)
EXTENDS Integers, Sequences, FiniteSets, TLC

(***************************************************************************)
(* Bounds of the model.                                                    *)
(*   MaxCores    the values of the -c parameter explored are 1..MaxCores.  *)
(*   MaxAdds     the clients send at most this many add commands in all.   *)
(*   bufferSize  the receive buffer of readCommands.  The source sets it   *)
(*               to 1024 (hashMatcher.cpp:187); the model keeps every use  *)
(*               of it symbolic and explores a small value, so that every  *)
(*               split of a stream into reads is enumerated.               *)
(***************************************************************************)
MaxCores == 3
MaxAdds == 3
bufferSize == 12


(***************************************************************************)
(* Bytes.                                                                  *)
(***************************************************************************)
NL == "\n"
\* The terminator byte '\0' that readCommands writes over a newline.
NUL == "NUL"
SP == " "

IsSpace(c) == c \in {" ", "\t", "\n", "\r"}

HexLower == <<"0","1","2","3","4","5","6","7","8","9","a","b","c","d","e","f">>
HexUpper == <<"0","1","2","3","4","5","6","7","8","9","A","B","C","D","E","F">>

\* The value of byte c as a digit, or -1 when c is no hexadecimal digit.
DigitVal(c) ==
  IF \E v \in 1..16 : HexLower[v] = c \/ HexUpper[v] = c
  THEN (CHOOSE v \in 1..16 : HexLower[v] = c \/ HexUpper[v] = c) - 1
  ELSE -1

IsDigit(c, base) == DigitVal(c) >= 0 /\ DigitVal(c) < base

RECURSIVE SkipSpace(_, _)
\* scanf's white-space directive: the first index >= i of s that holds no
\* white space (Len(s) + 1 at the end of the input).
SkipSpace(s, i) ==
  IF i <= Len(s) /\ IsSpace(s[i]) THEN SkipSpace(s, i + 1) ELSE i

RECURSIVE ScanDigits(_, _, _, _, _)
\* The longest run of base-`base` digits of s from index i: its value, the
\* number of digits and the index after it.
ScanDigits(s, i, base, acc, n) ==
  IF i <= Len(s) /\ IsDigit(s[i], base)
  THEN ScanDigits(s, i + 1, base, acc * base + DigitVal(s[i]), n + 1)
  ELSE [val |-> acc, n |-> n, next |-> i]

\* A %lu / %lx / %hhu conversion at index i: leading white space is skipped,
\* then at least one digit is needed.  eof: the input ended before a digit.
ScanNumber(s, i, base) ==
  LET j == SkipSpace(s, i)
      r == ScanDigits(s, j, base, 0, 0)
  IN  [ok |-> r.n > 0, eof |-> j > Len(s), val |-> r.val, next |-> r.next]

RECURSIVE MatchLiteral(_, _, _)
\* The ordinary characters at the start of a format: 0 when the input
\* differs, -1 when the input ends first, else the index after them.
MatchLiteral(s, lit, k) ==
  IF k > Len(lit) THEN k
  ELSE IF k > Len(s) THEN -1
  ELSE IF s[k] # lit[k] THEN 0
  ELSE MatchLiteral(s, lit, k + 1)

\* sscanf(command, "match %" SCNx64 " %hhu\n", &hash, &maxDistance)
sscanfMatch(command) ==
  LET p == MatchLiteral(command, <<"m","a","t","c","h">>, 1)
      h == ScanNumber(command, p, 16)
      d == ScanNumber(command, h.next, 10)
  IN  IF p = -1 THEN [rc |-> -1, hash |-> 0, maxDistance |-> 0]
      ELSE IF p = 0 THEN [rc |-> 0, hash |-> 0, maxDistance |-> 0]
      ELSE IF ~h.ok
           THEN [rc |-> IF h.eof THEN -1 ELSE 0, hash |-> 0, maxDistance |-> 0]
      ELSE IF ~d.ok THEN [rc |-> 1, hash |-> h.val, maxDistance |-> 0]
      ELSE [rc |-> 2, hash |-> h.val, maxDistance |-> d.val % 256]

\* sscanf(command, "add %" SCNu64 " %" SCNx64 "\n", &dbId, &hash)
sscanfAdd(command) ==
  LET p == MatchLiteral(command, <<"a","d","d">>, 1)
      n == ScanNumber(command, p, 10)
      h == ScanNumber(command, n.next, 16)
  IN  IF p = -1 THEN [rc |-> -1, dbId |-> 0, hash |-> 0]
      ELSE IF p = 0 THEN [rc |-> 0, dbId |-> 0, hash |-> 0]
      ELSE IF ~n.ok
           THEN [rc |-> IF n.eof THEN -1 ELSE 0, dbId |-> 0, hash |-> 0]
      ELSE IF ~h.ok THEN [rc |-> 1, dbId |-> n.val, hash |-> 0]
      ELSE [rc |-> 2, dbId |-> n.val, hash |-> h.val]

RECURSIVE Decimal(_)
\* printf's %u / PRIu64 conversion of n >= 0.
Decimal(n) ==
  IF n < 10 THEN <<HexLower[n + 1]>>
  ELSE Append(Decimal(n \div 10), HexLower[(n % 10) + 1])

\* A bug the format could have: the two numbers in the other order.
sprintfSwapped(m) == Decimal(m.distance) \o <<SP>> \o Decimal(m.dbId) \o <<NL>>

\* sprintf(response, "%" PRIu64 " %u\n", dbId, distance)
sprintfResponse(m) == Decimal(m.dbId) \o <<SP>> \o Decimal(m.distance) \o <<NL>>

(***************************************************************************)
(* The records of the store and of a search.                               *)
(***************************************************************************)
Node(dbId, pHash) == [dbId |-> dbId, pHash |-> pHash]

Match(dbId, distance) == [dbId |-> dbId, distance |-> distance]

RECURSIVE Xor(_, _)
\* a ^ b on unsigned integers.
Xor(a, b) ==
  IF a = 0 /\ b = 0 THEN 0
  ELSE (((a % 2) + (b % 2)) % 2) + (2 * Xor(a \div 2, b \div 2))

RECURSIVE popcountl(_)
\* __builtin_popcountl
popcountl(x) == IF x = 0 THEN 0 ELSE (x % 2) + popcountl(x \div 2)

\* The distance searchThread computes for one Node.
Distance(queryHash, node) == popcountl(Xor(queryHash, node.pHash))

\* A bug the comparison could have: a Node at exactly maxDistance is left out.
WithinDistanceStrict(distance, maxDistance) == distance < maxDistance

\* The test of searchThread that decides whether a Node is reported.
WithinDistance(distance, maxDistance) == distance <= maxDistance

(***************************************************************************)
(* add: the store and its balancing policy.  nodeLists is the array of     *)
(* lists, indexed 0 .. GBLnumCores - 1; the head of a list is its newest   *)
(* Node (emplace_front).                                                   *)
(***************************************************************************)
emplace_front(nodeLists, k, node) ==
  [nodeLists EXCEPT ![k] = <<node>> \o nodeLists[k]]

NumLists(nodeLists) == Cardinality(DOMAIN nodeLists)

RECURSIVE addLoop(_, _, _, _, _)
\* The for loop of add from index i on; the Node is built from the
\* parameters in the order the source passes them: (hash, dbId).
addLoop(nodeLists, i, added, hash, dbId) ==
  IF i >= NumLists(nodeLists) - 1
  THEN [nodeLists |-> nodeLists, added |-> added]
  ELSE IF Len(nodeLists[i + 1]) < Len(nodeLists[i])
       THEN addLoop(emplace_front(nodeLists, i + 1, Node(hash, dbId)),
                    i + 1, TRUE, hash, dbId)
       ELSE addLoop(nodeLists, i + 1, added, hash, dbId)

\* A bug add could have: the Node's two fields the other way round.
addSwapped(nodeLists, hash, dbId) ==
  LET r == addLoop(nodeLists, 0, FALSE, dbId, hash)
  IN  IF ~r.added THEN emplace_front(r.nodeLists, 0, Node(dbId, hash))
      ELSE r.nodeLists

\* A bug add could have: no scan of the pairs, every Node goes to list 0.
addFirstOnly(nodeLists, hash, dbId) ==
  emplace_front(nodeLists, 0, Node(hash, dbId))

RECURSIVE addBreakLoop(_, _, _, _)
addBreakLoop(nodeLists, i, hash, dbId) ==
  IF i >= NumLists(nodeLists) - 1
  THEN emplace_front(nodeLists, 0, Node(hash, dbId))
  ELSE IF Len(nodeLists[i + 1]) < Len(nodeLists[i])
       THEN emplace_front(nodeLists, i + 1, Node(hash, dbId))
       ELSE addBreakLoop(nodeLists, i + 1, hash, dbId)

\* A change add could have: the scan stops at the first qualifying pair.
addBreak(nodeLists, hash, dbId) == addBreakLoop(nodeLists, 0, hash, dbId)

\* A bug add could have: list 0 receives the Node whether or not a pair
\* qualified.
addUnguarded(nodeLists, hash, dbId) ==
  emplace_front(addLoop(nodeLists, 0, FALSE, hash, dbId).nodeLists, 0,
                Node(hash, dbId))

\* void add(uint64_t hash, uint64_t dbId)
add(nodeLists, hash, dbId) ==
  LET r == addLoop(nodeLists, 0, FALSE, hash, dbId)
  IN  IF ~r.added THEN emplace_front(r.nodeLists, 0, Node(hash, dbId))
      ELSE r.nodeLists

(***************************************************************************)
(* readCommands: the helpers of the framing loop.  Offsets into the buffer *)
(* count from 0 as in the source; buffer[k + 1] is the byte at offset k.   *)
(***************************************************************************)
RECURSIVE memchrFrom(_, _, _)
memchrFrom(buf, k, last) ==
  IF k > last THEN 0
  ELSE IF buf[k] = NL THEN k
  ELSE memchrFrom(buf, k + 1, last)

\* memchr(lineStart, '\n', n): the index in buf of the first newline among
\* the n bytes from offset lineStart, 0 (NULL) when there is none.
memchr(buf, lineStart, n) == memchrFrom(buf, lineStart + 1, lineStart + n)

RECURSIVE CStringEnd(_, _)
CStringEnd(buf, k) ==
  IF k > Len(buf) \/ buf[k] = NUL THEN k ELSE CStringEnd(buf, k + 1)

\* The C string that starts at offset lineStart: the bytes up to the first
\* terminator.
CString(buf, lineStart) ==
  SubSeq(buf, lineStart + 1, CStringEnd(buf, lineStart + 1) - 1)

\* memmove(buffer, lineStart, numBytesFilled): the n bytes from offset
\* lineStart, moved to the start of the buffer.
memmove(buf, lineStart, n) == SubSeq(buf, lineStart + 1, lineStart + n)

\* A bug the shift could have: the unprocessed bytes are forgotten.
UnprocessedNone(numBytesFilled, lineStart) == 0

\* numBytesFilled -= (lineStart - buffer)
Unprocessed(numBytesFilled, lineStart) == numBytesFilled - lineStart

\* A bug the length test could have: the last byte of the buffer is never used.
CommandTooLongEarly(numBytesFilled) == numBytesFilled >= bufferSize - 1

\* A bug the length test could have: a full buffer is not noticed.
CommandTooLongNever(numBytesFilled) == numBytesFilled > bufferSize

\* if (numBytesFilled == bufferSize)
CommandTooLong(numBytesFilled) == numBytesFilled = bufferSize

\* The branch processCommand takes for a command.
CommandKind(command) ==
  IF sscanfMatch(command).rc = 2 THEN "match"
  ELSE IF sscanfAdd(command).rc = 2 THEN "add"
  ELSE "invalid"

(***************************************************************************)
(* The clients.  A connection carries one of the streams below, delivered  *)
(* in reads of any size.                                                   *)
(***************************************************************************)
Pad(n) == [k \in 1..n |-> SP]
Filler(n) == [k \in 1..n |-> "z"]

AddA == <<"a","d","d"," ","1"," ","3">>
AddB == <<"a","d","d"," ","2"," ","0">>
MatchExact == <<"m","a","t","c","h"," ","3"," ","0">>
MatchNear == <<"m","a","t","c","h"," ","1"," ","1">>
MatchNone == <<"m","a","t","c","h"," ","1"," ","0">>
BadHex == <<"a","d","d"," ","1"," ","z","z">>
\* AddA with a byte that is no hexadecimal digit after its hash.
AddAJunk == <<"a","d","d"," ","1"," ","3","z">>
\* AddB padded to the longest line the buffer takes (bufferSize bytes with
\* its newline) and to one byte more.
AddBLongest == AddB \o Pad(bufferSize - 1 - Len(AddB))
AddBTooLong == AddB \o Pad(bufferSize - Len(AddB))

Line(l) == l \o <<NL>>

\* Peers that send one command per connection, as the usage text of the
\* server asks for.
CommandStreams ==
  { Line(AddA),
    Line(AddB),
    Line(MatchExact),
    Line(MatchNear),
    Line(MatchNone),
    Line(BadHex),
    Line(AddAJunk) }

\* Peers that send several lines per connection, lines at the length limit,
\* lines beyond it, an empty line and an unterminated line.
FramingStreams ==
  { Line(AddA) \o Line(MatchExact) \o Line(MatchNone),
    Line(BadHex) \o Line(AddB),
    Line(<<>>) \o Line(AddB),
    Line(MatchExact) \o Line(AddB),
    Line(AddA) \o Line(AddBLongest),
    Line(AddBTooLong) \o Line(AddA),
    Filler(bufferSize + 2),
    Line(AddB) \o Filler(bufferSize + 1) \o <<NL>> \o Line(AddA),
    <<"a","d","d"," ","1">> }

Streams == CommandStreams \cup FramingStreams

RECURSIVE Lines(_, _)
\* The newline-terminated lines of a stream, in order (cur: the bytes of
\* the line being collected).
Lines(stream, cur) ==
  IF stream = <<>> THEN <<>>
  ELSE IF Head(stream) = NL THEN <<cur>> \o Lines(Tail(stream), <<>>)
  ELSE Lines(Tail(stream), Append(cur, Head(stream)))

\* The number of add commands in each stream.
AddsIn ==
  [stream \in Streams |->
     LET ls == Lines(stream, <<>>)
     IN  Cardinality({k \in 1..Len(ls) : CommandKind(ls[k]) = "add"})]

(***************************************************************************)
(* The state.                                                              *)
(***************************************************************************)
VARIABLES
  GBLnumCores,            \* the -c parameter
  GBLnodeLists,           \* the store: one list of Nodes per core
  GBLsearchResults,       \* the vector of Matches
  GBLsearchResultsMutex,  \* the thread that holds the mutex, or NoThread
  threadParam,            \* the ThreadParam array of the running search
  GBLsearchThreads,       \* per thread: where it is in searchThread
  pc,                     \* where the main flow is
  i,                      \* the loop index of search / processCommand
  input,                  \* the bytes the peer sends on this connection
  pos,                    \* how many of them recv has delivered
  buffer,                 \* readCommands: the filled part of buffer
  numBytesFilled,
  lineStart,
  cmds,                   \* history: the commands passed to processCommand
  sent,                   \* history: the bytes sent to the peer
  added,                  \* history: the number of add commands processed
  closeReason,            \* why readCommands last left its loop
  peers                   \* the streams the peers of this run send

vars == <<GBLnumCores, GBLnodeLists, GBLsearchResults, GBLsearchResultsMutex,
          threadParam, GBLsearchThreads, pc, i, input, pos, buffer,
          numBytesFilled, lineStart, cmds, sent, added, closeReason, peers>>

storeVars == <<GBLnumCores, GBLnodeLists, peers>>
searchVars == <<GBLsearchResults, GBLsearchResultsMutex, threadParam,
                GBLsearchThreads>>
readVars == <<input, pos, buffer, numBytesFilled, lineStart>>

NoThread == -1
Cores == 0 .. GBLnumCores - 1
NoParam == [threadNum |-> -1, queryHash |-> 0, maxDistance |-> 0, nodeList |-> -1]
\* A thread that was never created, and one that has exited.
Stopped(at) ==
  [pc |-> at, it |-> 0, queryHash |-> 0, maxDistance |-> 0, nodeList |-> -1]
Idle == Stopped("idle")
Done == Stopped("done")

\* main: the state when the server first waits in accept.
Init ==
  /\ GBLnumCores \in 1..MaxCores
  /\ GBLnodeLists = [c \in Cores |-> <<>>]
  /\ GBLsearchResults = <<>>
  /\ GBLsearchResultsMutex = NoThread
  /\ threadParam = [c \in Cores |-> NoParam]
  /\ GBLsearchThreads = [c \in Cores |-> Idle]
  /\ pc = "accept"
  /\ i = 0
  /\ input = <<>>
  /\ pos = 0
  /\ buffer = <<>>
  /\ numBytesFilled = 0
  /\ lineStart = 0
  /\ cmds = <<>>
  /\ sent = <<>>
  /\ added = 0
  /\ closeReason = "none"
  /\ peers \in {CommandStreams, FramingStreams}

(***************************************************************************)
(* main: accept a connection.  The peer's stream is fixed here; the total  *)
(* number of add commands the clients send is bounded by MaxAdds.          *)
(***************************************************************************)
Accept(stream) ==
  /\ pc = "accept"
  /\ stream \in peers
  /\ added + AddsIn[stream] <= MaxAdds
  /\ input' = stream
  /\ pos' = 0
  /\ buffer' = <<>>
  /\ numBytesFilled' = 0
  /\ lineStart' = 0
  /\ cmds' = <<>>
  /\ sent' = <<>>
  /\ closeReason' = "open"
  /\ pc' = "recv"
  /\ UNCHANGED <<storeVars, searchVars, i, added>>

(***************************************************************************)
(* readCommands.                                                           *)
(***************************************************************************)
\* recv returns rc > 0 bytes: at most the room left in the buffer and at
\* most what the peer has still to send.
Recv(rc) ==
  /\ pc = "recv"
  /\ rc >= 1
  /\ rc <= bufferSize - numBytesFilled
  /\ rc <= Len(input) - pos
  /\ buffer' = SubSeq(buffer, 1, numBytesFilled) \o SubSeq(input, pos + 1, pos + rc)
  /\ pos' = pos + rc
  /\ numBytesFilled' = numBytesFilled + rc
  /\ lineStart' = 0
  /\ pc' = "lines"
  /\ UNCHANGED <<storeVars, searchVars, i, input, cmds, sent, added, closeReason>>

\* readCommands returns (its buffer goes out of scope), main closes the
\* socket, so that nothing more of the stream is delivered, and waits in
\* accept again.
Return ==
  /\ pos' = 0
  /\ buffer' = <<>>
  /\ numBytesFilled' = 0
  /\ lineStart' = 0
  /\ pc' = "accept"

\* recv returns 0: the peer has sent everything and closed.
RecvClosed ==
  /\ pc = "recv"
  /\ pos = Len(input)
  /\ closeReason' = "eof"
  /\ Return
  /\ UNCHANGED <<storeVars, searchVars, i, input, cmds, sent, added>>

\* recv returns -1.
RecvError ==
  /\ pc = "recv"
  /\ closeReason' = "error"
  /\ Return
  /\ UNCHANGED <<storeVars, searchVars, i, input, cmds, sent, added>>

\* The newline the inner while loop finds (0: none), the buffer once the
\* newline is overwritten by the terminator, and the command passed on.
lineEnd == memchr(buffer, lineStart, numBytesFilled - lineStart)
Terminated == [buffer EXCEPT ![lineEnd] = NUL]
command == CString(Terminated, lineStart)

\* A bug the line loop could have: lineStart is not moved past the command.
afterLineStay == lineStart
\* lineStart = lineEnd + 1 - buffer: the offset after the command.
afterLine == lineEnd

\* The inner loop ends: shift the unprocessed bytes down, and leave when
\* they fill the buffer.
ShiftBuffer ==
  /\ pc = "lines"
  /\ lineEnd = 0
  /\ LET n == Unprocessed(numBytesFilled, lineStart)
     IN  IF CommandTooLong(n)
         THEN /\ closeReason' = "toolong"
              /\ Return
         ELSE /\ numBytesFilled' = n
              /\ buffer' = memmove(buffer, lineStart, n)
              /\ lineStart' = 0
              /\ pc' = "recv"
              /\ UNCHANGED <<pos, closeReason>>
  /\ UNCHANGED <<storeVars, searchVars, i, input, cmds, sent, added>>

(***************************************************************************)
(* processCommand.                                                         *)
(***************************************************************************)
\* Neither sscanf converts two items: the command is reported and dropped.
ProcessInvalid ==
  /\ pc = "lines"
  /\ lineEnd # 0
  /\ CommandKind(command) = "invalid"
  /\ buffer' = Terminated
  /\ lineStart' = afterLine
  /\ cmds' = Append(cmds, command)
  /\ UNCHANGED <<storeVars, searchVars, pc, i, input, pos, numBytesFilled,
                 sent, added, closeReason>>

\* An add command: add(dbId, hash) runs to its end.
ProcessAdd ==
  /\ pc = "lines"
  /\ lineEnd # 0
  /\ CommandKind(command) = "add"
  /\ LET a == sscanfAdd(command)
     IN  GBLnodeLists' = add(GBLnodeLists, a.dbId, a.hash)
  /\ added' = added + 1
  /\ buffer' = Terminated
  /\ lineStart' = afterLine
  /\ cmds' = Append(cmds, command)
  /\ UNCHANGED <<GBLnumCores, peers, searchVars, pc, i, input, pos,
                 numBytesFilled, sent, closeReason>>

\* A bug search could have: the results of the last search are not cleared.
ProcessMatchNoClear ==
  /\ pc = "lines"
  /\ lineEnd # 0
  /\ CommandKind(command) = "match"
  /\ buffer' = Terminated
  /\ cmds' = Append(cmds, command)
  /\ i' = 0
  /\ pc' = "spawn"
  /\ UNCHANGED <<storeVars, searchVars, input, pos, numBytesFilled, lineStart,
                 sent, added, closeReason>>

\* A match command: search() is entered and clears the results.  lineStart
\* stays on the command until processCommand returns.
ProcessMatch ==
  /\ pc = "lines"
  /\ lineEnd # 0
  /\ CommandKind(command) = "match"
  /\ buffer' = Terminated
  /\ cmds' = Append(cmds, command)
  /\ GBLsearchResults' = <<>>
  /\ i' = 0
  /\ pc' = "spawn"
  /\ UNCHANGED <<storeVars, GBLsearchResultsMutex, threadParam,
                 GBLsearchThreads, input, pos, numBytesFilled, lineStart,
                 sent, added, closeReason>>

\* The command being processed while pc is spawn, join or send, and the
\* offset after its terminator.
current == CString(buffer, lineStart)
afterCurrent == CStringEnd(buffer, lineStart + 1)

(***************************************************************************)
(* search.                                                                 *)
(***************************************************************************)
\* A bug the loop could have: every thread is given the first list.
nodeListFirst(k) == 0
\* threadParam[i].nodeList = &(GBLnodeLists[i])
nodeListParam(k) == k

\* One turn of the first loop: fill threadParam[i]; pthread_create succeeds
\* and the new thread copies its parameters (the first lines of
\* searchThread).
Spawn ==
  /\ pc = "spawn"
  /\ LET m == sscanfMatch(current)
     IN  threadParam' = [threadParam EXCEPT ![i] =
           [threadNum |-> i, queryHash |-> m.hash,
            maxDistance |-> m.maxDistance, nodeList |-> nodeListParam(i)]]
  /\ GBLsearchThreads' = [GBLsearchThreads EXCEPT ![i] =
       [pc |-> "scan", it |-> 1, queryHash |-> threadParam'[i].queryHash,
        maxDistance |-> threadParam'[i].maxDistance,
        nodeList |-> threadParam'[i].nodeList]]
  /\ IF i + 1 < GBLnumCores
     THEN i' = i + 1 /\ pc' = pc
     ELSE i' = 0 /\ pc' = "join"
  /\ UNCHANGED <<storeVars, GBLsearchResults, GBLsearchResultsMutex, readVars,
                 cmds, sent, added, closeReason>>

\* A bug the error path could have: search returns to its caller instead of
\* ending the process.
SpawnFailReturn ==
  /\ pc = "spawn"
  /\ pc' = "send"
  /\ i' = 0
  /\ UNCHANGED <<storeVars, searchVars, readVars, cmds, sent, added,
                 closeReason>>

\* pthread_create fails: exit(2) ends the process.
SpawnFail ==
  /\ pc = "spawn"
  /\ pc' = "exited"
  /\ UNCHANGED <<storeVars, searchVars, i, readVars, cmds, sent, added,
                 closeReason>>

\* A bug the join could have: it does not wait for the thread.
JoinableAlways(thread) == TRUE

\* A bug the join could have: it returns as soon as the thread exists.
JoinableStarted(thread) == thread.pc # "idle"

\* pthread_join returns once the thread has exited.
Joinable(thread) == thread.pc = "done"

\* What a join leaves of a thread: one that has exited is gone.
Joined(thread) == IF thread.pc = "done" THEN Idle ELSE thread

\* One turn of the second loop.  After the last one search returns, and
\* its threadParam pointer goes out of scope.
Join ==
  /\ pc = "join"
  /\ Joinable(GBLsearchThreads[i])
  /\ GBLsearchThreads' = [GBLsearchThreads EXCEPT ![i] = Joined(@)]
  /\ IF i + 1 < GBLnumCores
     THEN i' = i + 1 /\ pc' = pc /\ threadParam' = threadParam
     ELSE i' = 0 /\ pc' = "send" /\ threadParam' = [c \in Cores |-> NoParam]
  /\ UNCHANGED <<storeVars, GBLsearchResults, GBLsearchResultsMutex,
                 readVars, cmds, sent, added, closeReason>>

(***************************************************************************)
(* processCommand: the loop that sends the results.                        *)
(***************************************************************************)
\* send transmits the whole response line.
SendLine ==
  /\ pc = "send"
  /\ i < Len(GBLsearchResults)
  /\ sent' = sent \o sprintfResponse(GBLsearchResults[i + 1])
  /\ i' = i + 1
  /\ UNCHANGED <<storeVars, searchVars, pc, readVars, cmds, added, closeReason>>

\* send transmits only the first k bytes of the line (or fails, k = 0): the
\* loop is left.
SendFail ==
  /\ pc = "send"
  /\ i < Len(GBLsearchResults)
  /\ \E k \in 0 .. Len(sprintfResponse(GBLsearchResults[i + 1])) - 1 :
       sent' = sent \o SubSeq(sprintfResponse(GBLsearchResults[i + 1]), 1, k)
  /\ i' = 0
  /\ lineStart' = afterCurrent
  /\ pc' = "lines"
  /\ UNCHANGED <<storeVars, searchVars, input, pos, buffer, numBytesFilled,
                 cmds, added, closeReason>>

\* Every result is sent: processCommand returns.
SendDone ==
  /\ pc = "send"
  /\ i >= Len(GBLsearchResults)
  /\ i' = 0
  /\ lineStart' = afterCurrent
  /\ pc' = "lines"
  /\ UNCHANGED <<storeVars, searchVars, input, pos, buffer, numBytesFilled,
                 cmds, sent, added, closeReason>>

(***************************************************************************)
(* searchThread, for the thread with index w.                              *)
(***************************************************************************)
nodeListOf(w) == GBLnodeLists[GBLsearchThreads[w].nodeList]
nodeAt(w) == nodeListOf(w)[GBLsearchThreads[w].it]
Running(w) == pc # "exited" /\ w \in Cores

\* it++ and the loop test: the next Node, or pthread_exit after the last.
Advance(w) ==
  IF GBLsearchThreads[w].it + 1 > Len(nodeListOf(w)) THEN Done
  ELSE [GBLsearchThreads[w] EXCEPT !.pc = "scan", !.it = @ + 1]

\* One Node: its distance and the comparison with maxDistance (on an empty
\* list: the loop test fails at once and the thread exits).
ThreadScan(w) ==
  /\ Running(w)
  /\ GBLsearchThreads[w].pc = "scan"
  /\ GBLsearchThreads' = [GBLsearchThreads EXCEPT ![w] =
       IF GBLsearchThreads[w].it > Len(nodeListOf(w)) THEN Done
       ELSE IF WithinDistance(Distance(GBLsearchThreads[w].queryHash, nodeAt(w)),
                              GBLsearchThreads[w].maxDistance)
            THEN [GBLsearchThreads[w] EXCEPT !.pc = "lock"]
            ELSE Advance(w)]
  /\ UNCHANGED <<storeVars, GBLsearchResults, GBLsearchResultsMutex,
                 threadParam, pc, i, readVars, cmds, sent, added, closeReason>>

\* A bug the lock could have: it is taken although another thread holds it.
MutexFreeAlways(mutex) == TRUE

\* pthread_mutex_lock returns only when no thread holds the mutex.
MutexFree(mutex) == mutex = NoThread

\* pthread_mutex_lock
ThreadLock(w) ==
  /\ Running(w)
  /\ GBLsearchThreads[w].pc = "lock"
  /\ MutexFree(GBLsearchResultsMutex)
  /\ GBLsearchResultsMutex' = w
  /\ GBLsearchThreads' = [GBLsearchThreads EXCEPT ![w].pc = "append"]
  /\ UNCHANGED <<storeVars, GBLsearchResults, threadParam, pc, i, readVars,
                 cmds, sent, added, closeReason>>

\* A bug the thread could have: the mutex is not released after the append.
ThreadAppendNoUnlock(w) ==
  /\ Running(w)
  /\ GBLsearchThreads[w].pc = "append"
  /\ GBLsearchResults' = Append(GBLsearchResults,
       Match(nodeAt(w).dbId, Distance(GBLsearchThreads[w].queryHash, nodeAt(w))))
  /\ GBLsearchThreads' = [GBLsearchThreads EXCEPT ![w] = Advance(w)]
  /\ UNCHANGED <<storeVars, GBLsearchResultsMutex, threadParam, pc, i,
                 readVars, cmds, sent, added, closeReason>>

\* GBLsearchResults.emplace_back(it->dbId, distance), pthread_mutex_unlock,
\* and on to the next Node.
ThreadAppend(w) ==
  /\ Running(w)
  /\ GBLsearchThreads[w].pc = "append"
  /\ GBLsearchResults' = Append(GBLsearchResults,
       Match(nodeAt(w).dbId, Distance(GBLsearchThreads[w].queryHash, nodeAt(w))))
  /\ GBLsearchResultsMutex' = NoThread
  /\ GBLsearchThreads' = [GBLsearchThreads EXCEPT ![w] = Advance(w)]
  /\ UNCHANGED <<storeVars, threadParam, pc, i, readVars, cmds, sent, added,
                 closeReason>>

Next ==
  \/ \E stream \in Streams : Accept(stream)
  \/ \E rc \in 1..bufferSize : Recv(rc)
  \/ RecvClosed
  \/ RecvError
  \/ ShiftBuffer
  \/ ProcessInvalid
  \/ ProcessAdd
  \/ ProcessMatch
  \/ Spawn
  \/ SpawnFail
  \/ Join
  \/ SendLine
  \/ SendFail
  \/ SendDone
  \/ \E w \in 0..MaxCores - 1 : ThreadScan(w)
  \/ \E w \in 0..MaxCores - 1 : ThreadLock(w)
  \/ \E w \in 0..MaxCores - 1 : ThreadAppend(w)

Spec == Init /\ [][Next]_vars

\* The scheduling the search relies on: a thread that can take a step of
\* searchThread eventually takes it, and pthread_join returns once the
\* thread it waits for has exited.  Nothing is assumed of the peers.
Fairness ==
  /\ \A w \in 0 .. MaxCores - 1 :
       /\ WF_vars(ThreadScan(w))
       /\ WF_vars(ThreadLock(w))
       /\ WF_vars(ThreadAppend(w))
  /\ WF_vars(Join)

FairSpec == Spec /\ Fairness

(***************************************************************************)
(* Notions the properties below are stated in.                             *)
(***************************************************************************)
HashBits == 64

RECURSIVE DifferingBits(_, _, _)
\* Among the lowest n bit positions, the number in which a and b differ.
DifferingBits(a, b, n) ==
  IF n = 0 THEN 0
  ELSE (IF a % 2 # b % 2 THEN 1 ELSE 0) + DifferingBits(a \div 2, b \div 2, n - 1)

\* The number of bit positions in which two 64-bit values differ.
HammingDistance(a, b) == DifferingBits(a, b, HashBits)

Range(seq) == {seq[k] : k \in 1..Len(seq)}
Count(seq, x) == Cardinality({k \in 1..Len(seq) : seq[k] = x})

\* Every place of the store: <<list, index>>.
Places == {pl \in Cores \X (1 .. MaxAdds + 1) : pl[2] <= Len(GBLnodeLists[pl[1]])}
NodeIn(pl) == GBLnodeLists[pl[1]][pl[2]]
ListSizes == [c \in Cores |-> Len(GBLnodeLists[c])]
TotalSize == Cardinality(Places)

\* The query of the match command being processed (pc is spawn, join or send).
queryHash == sscanfMatch(current).hash
maxDistance == sscanfMatch(current).maxDistance

\* The Match the search owes for the Node at a place, and whether it owes one.
Owed(pl) == [dbId |-> NodeIn(pl).dbId,
             distance |-> HammingDistance(queryHash, NodeIn(pl).pHash)]
Qualifies(pl) == HammingDistance(queryHash, NodeIn(pl).pHash) <= maxDistance

\* search has returned and processCommand is about to send the results.
SearchReturned == pc = "send" /\ i = 0

(***************************************************************************)
(* C1.  When search(q, d) returns, the result collection holds exactly one *)
(* Match (id, popcount(q XOR hash)) for every stored Entry whose Hamming   *)
(* distance to q is at most d, and nothing else: as a multiset, the        *)
(* results are the Matches owed for the qualifying places of the store.    *)
(***************************************************************************)
C1_SearchExact ==
  SearchReturned =>
    LET owed == [pl \in Places |-> Owed(pl)]
        qualifying == {pl \in Places : owed[pl].distance <= maxDistance}
    IN  \A m \in Range(GBLsearchResults) \cup {owed[pl] : pl \in Places} :
          Count(GBLsearchResults, m)
            = Cardinality({pl \in qualifying : owed[pl] = m})

\* A search over several lists returned at least two Matches and left out a
\* stored Entry that is too far from the query.
C1_Witness ==
  /\ SearchReturned
  /\ GBLnumCores >= 2
  /\ Len(GBLsearchResults) >= 2
  /\ \E pl \in Places : ~Qualifies(pl)

(***************************************************************************)
(* The text of commands and of response lines, written out byte by byte.   *)
(***************************************************************************)
IdTexts == {<<"1">>, <<"2">>}
HashTexts == {<<"0">>, <<"1">>, <<"3">>}
AddText(idText, hashText) == <<"a","d","d"," ">> \o idText \o <<SP>> \o hashText
MatchText(hashText, distanceText) ==
  <<"m","a","t","c","h"," ">> \o hashText \o <<SP>> \o distanceText
ResponseLine(idText, distanceText) == idText \o <<SP>> \o distanceText \o <<NL>>

\* bytes holds the line `line` (with its newline), starting at the start of
\* a line.
ContainsLine(bytes, line) ==
  \E k \in 1 .. Len(bytes) - Len(line) + 1 :
    /\ SubSeq(bytes, k, k + Len(line) - 1) = line
    /\ k = 1 \/ bytes[k - 1] = NL

\* Every Match of the results has been sent in full.
AllSent == pc = "send" /\ i = Len(GBLsearchResults)

(***************************************************************************)
(* C2.  Add-then-match round trip: once `add <id> <hash>` has been         *)
(* processed on a connection, a later `match <hash> 0` on it, all of whose *)
(* results are sent, has sent the line `<id> 0`, whatever the store held   *)
(* before and whatever the number of lists.                                *)
(***************************************************************************)
C2_AddThenMatch ==
  \A idText \in IdTexts, hashText \in HashTexts :
    ( /\ AllSent
      /\ Len(cmds) >= 2
      /\ cmds[Len(cmds)] = MatchText(hashText, <<"0">>)
      /\ \E k \in 1 .. Len(cmds) - 1 : cmds[k] = AddText(idText, hashText) )
    => ContainsLine(sent, ResponseLine(idText, <<"0">>))

\* `add 1 3` then `match 3 0` on one connection, answered in full, on a
\* store of several lists that already held other Entries.
C2_Witness ==
  /\ AllSent
  /\ cmds = <<AddText(<<"1">>, <<"3">>), MatchText(<<"3">>, <<"0">>)>>
  /\ GBLnumCores >= 2
  /\ TotalSize >= 3

(***************************************************************************)
(* C3.  In every reachable state the sum of the sizes of the lists equals  *)
(* the number of add commands processed so far.                            *)
(***************************************************************************)
C3_SumEqualsAdds == TotalSize = added

(***************************************************************************)
(* C4.  The balancing policy of one add call: for j = 1 .. N-1 in order,   *)
(* list j receives the new Entry exactly when it is shorter than list j-1  *)
(* as that list is when the pair is visited (list 0 as before the call, a  *)
(* later list as after its own insertion of this call, if any); list 0     *)
(* receives it exactly when no pair qualified; a list that receives it     *)
(* gets one new Node at its head, the same Node everywhere, and the other  *)
(* lists are unchanged.                                                    *)
(***************************************************************************)
Received(c) ==
  /\ Len(GBLnodeLists'[c]) = Len(GBLnodeLists[c]) + 1
  /\ Tail(GBLnodeLists'[c]) = GBLnodeLists[c]
PairQualifies(c) ==
  Len(GBLnodeLists[c]) <
    (IF c = 1 THEN Len(GBLnodeLists[0]) ELSE Len(GBLnodeLists'[c - 1]))
C5_BalancerBound ==
  \A c, e \in Cores : Len(GBLnodeLists[c]) - Len(GBLnodeLists[e]) <= 1

\* Three add commands on three or more lists: list 0 holds two Nodes, the
\* last list one.
C5_Witness ==
  /\ GBLnumCores >= 3
  /\ added = 3
  /\ Len(GBLnodeLists[0]) = 2
  /\ Len(GBLnodeLists[GBLnumCores - 1]) = 1

(***************************************************************************)
(* The lines of the stream of the connection, for the framing properties.  *)
(***************************************************************************)
LinesOf == [stream \in Streams \cup {<<>>} |-> Lines(stream, <<>>)]

\* A stream of newline-terminated lines, each within the length limit
\* (bufferSize bytes with its newline).
WithinLimit(stream) ==
  /\ stream # <<>>
  /\ stream[Len(stream)] = NL
  /\ \A k \in 1 .. Len(LinesOf[stream]) : Len(LinesOf[stream][k]) + 1 <= bufferSize

\* cmds is the first lines of the stream, in order.
CmdsArePrefix ==
  /\ Len(cmds) <= Len(LinesOf[input])
  /\ cmds = SubSeq(LinesOf[input], 1, Len(cmds))

RECURSIVE BytesOf(_)
\* The bytes the commands cs took in the stream, newlines included.
BytesOf(cs) == IF cs = <<>> THEN 0 ELSE Len(Head(cs)) + 1 + BytesOf(Tail(cs))

\* The stream holds n bytes from offset `from` on, none of them a newline.
NoNewlineIn(stream, from, n) ==
  /\ from + n <= Len(stream)
  /\ \A k \in from + 1 .. from + n : stream[k] # NL

\* The connection is over, and neither a failed recv nor the end of the
\* process cut it short.
ClosedByPeer == pc = "accept" /\ closeReason = "eof"
ClosedTooLong == pc = "accept" /\ closeReason = "toolong"

(***************************************************************************)
(* C6.  Framing is independent of chunking: for a stream of newline-       *)
(* terminated lines within the length limit, however recv splits it, the   *)
(* commands passed to processCommand are the lines of the stream, in       *)
(* order; the connection is never closed for a too long command, and when  *)
(* the peer has closed every line has been passed, as when the stream      *)
(* arrives in one piece.                                                   *)
(***************************************************************************)
C6_FramingIndependent ==
  WithinLimit(input) =>
    /\ CmdsArePrefix
    /\ closeReason # "toolong"
    /\ ClosedByPeer => cmds = LinesOf[input]

\* A stream within the limit was split inside its second line: the first
\* line has been processed, a part of the second waits in the buffer.
C6_Witness ==
  /\ WithinLimit(input)
  /\ pc = "recv"
  /\ Len(cmds) = 1
  /\ numBytesFilled > 0
  /\ pos < Len(input)

(***************************************************************************)
(* C7.  Oversized line: when a recv leaves the buffer holding bufferSize   *)
(* bytes with no newline among them, the next step ends the command loop   *)
(* and closes the connection with nothing passed to processCommand,        *)
(* nothing sent and the store unchanged; the server is then waiting in     *)
(* accept, able to take a connection, and the commands it was passed on    *)
(* the closed connection are only the lines before the unterminated one.   *)
(***************************************************************************)
BufferFull ==
  /\ pc = "lines"
  /\ lineStart = 0
  /\ numBytesFilled = bufferSize
  /\ \A k \in 1 .. bufferSize : buffer[k] # NL

C7_Oversized ==
  /\ [][ BufferFull =>
           /\ pc' = "accept"
           /\ closeReason' = "toolong"
           /\ UNCHANGED <<GBLnodeLists, GBLsearchResults, cmds, sent, added>> ]_vars
  /\ []( closeReason = "toolong" =>
           /\ pc = "accept"
           /\ \E stream \in peers : ENABLED Accept(stream)
           /\ CmdsArePrefix
           /\ NoNewlineIn(input, BytesOf(cmds), bufferSize) )

\* A connection closed for a too long line after an add command of the same
\* connection was processed: the store keeps its Node.
C7_Witness ==
  /\ ClosedTooLong
  /\ Len(cmds) = 1
  /\ added >= 1
  /\ TotalSize >= 1

(***************************************************************************)
(* C8.  Line-length limit: the connection is closed for a too long command *)
(* only at a line with at least bufferSize bytes before its newline; a     *)
(* line of at most bufferSize bytes with its newline, preceded only by     *)
(* such lines, has been passed to processCommand by the time the           *)
(* connection is over, however the stream was split.                       *)
(***************************************************************************)
C8_LineLimit ==
  /\ closeReason = "toolong" => NoNewlineIn(input, BytesOf(cmds), bufferSize)
  /\ ClosedByPeer \/ ClosedTooLong =>
       \A k \in 1 .. Len(LinesOf[input]) :
         (\A j \in 1 .. k : Len(LinesOf[input][j]) + 1 <= bufferSize)
           => Len(cmds) >= k /\ cmds[k] = LinesOf[input][k]

\* The peer has closed after a stream whose second line is as long as the
\* limit allows; both lines were passed.
C8_Witness ==
  /\ ClosedByPeer
  /\ Len(cmds) = 2
  /\ Len(cmds[2]) = bufferSize - 1

(***************************************************************************)
(* The two command grammars: white-space delimited words.                  *)
(***************************************************************************)
RECURSIVE Words(_, _)
\* The words of a line (cur: the word being collected).
Words(line, cur) ==
  IF line = <<>> THEN (IF cur = <<>> THEN <<>> ELSE <<cur>>)
  ELSE IF IsSpace(Head(line))
       THEN (IF cur = <<>> THEN <<>> ELSE <<cur>>) \o Words(Tail(line), <<>>)
       ELSE Words(Tail(line), Append(cur, Head(line)))

DecimalChars == {"0","1","2","3","4","5","6","7","8","9"}
HexChars == DecimalChars \cup {"a","b","c","d","e","f","A","B","C","D","E","F"}
IsNumeral(word, chars) == word # <<>> /\ \A k \in 1..Len(word) : word[k] \in chars

MatchGrammar(line) ==
  LET w == Words(line, <<>>)
  IN  /\ Len(w) = 3
      /\ w[1] = <<"m","a","t","c","h">>
      /\ IsNumeral(w[2], HexChars)
      /\ IsNumeral(w[3], DecimalChars)

AddGrammar(line) ==
  LET w == Words(line, <<>>)
  IN  /\ Len(w) = 3
      /\ w[1] = <<"a","d","d">>
      /\ IsNumeral(w[2], DecimalChars)
      /\ IsNumeral(w[3], HexChars)

(***************************************************************************)
(* C9.  Malformed line: processing a complete line that matches neither    *)
(* grammar changes no list, sends nothing, does not close the connection   *)
(* and does not end the process: the main flow stays in the line loop of   *)
(* readCommands, where the following lines are processed as usual.         *)
(***************************************************************************)
C9_MalformedIgnored ==
  [][ ( /\ Len(cmds') = Len(cmds) + 1
        /\ ~MatchGrammar(cmds'[Len(cmds')])
        /\ ~AddGrammar(cmds'[Len(cmds')]) )
      => /\ UNCHANGED <<GBLnodeLists, sent, added, closeReason>>
         /\ pc' = "lines" ]_vars

(***************************************************************************)
(* C10.  Join barrier: search returns only after every thread it created   *)
(* has exited and been joined; no response byte is sent, and the results   *)
(* are not read by processCommand, while a thread is running.              *)
(***************************************************************************)
NoThreadRunning == \A w \in Cores : GBLsearchThreads[w].pc = "idle"

C10_JoinBarrier ==
  /\ [](pc = "send" => NoThreadRunning)
  /\ [][sent' # sent => NoThreadRunning]_vars

\* A match on three lists is being answered: search has returned at least
\* two Matches and the first line has been sent.
C10_Witness ==
  /\ pc = "send"
  /\ GBLnumCores = 3
  /\ Len(GBLsearchResults) >= 2
  /\ i >= 1
  /\ sent # <<>>

(***************************************************************************)
(* C11.  No partial answer on an internal fault: the process ends only     *)
(* from the loop that creates the threads, on a failed pthread_create;     *)
(* nothing is sent while the threads are being created nor at the failure, *)
(* and nothing at all happens once the process has ended, so no response   *)
(* line of that match is ever sent.  A step that sends response bytes is   *)
(* taken only in the send loop, when no thread is left running and the     *)
(* results hold the Match of every stored Node that passes the test of     *)
(* searchThread (every list was gone through to its end).                  *)
(***************************************************************************)
EveryOwedMatchRecorded ==
  LET q == queryHash
      d == maxDistance
      distance == [pl \in Places |-> Distance(q, NodeIn(pl))]
      owed == {pl \in Places : WithinDistance(distance[pl], d)}
  IN  /\ Len(GBLsearchResults) >= Cardinality(owed)
      /\ \A pl \in owed :
           Match(NodeIn(pl).dbId, distance[pl]) \in Range(GBLsearchResults)

C11_NoPartialAnswer ==
  /\ [][pc # "exited"]_vars
  /\ [][pc' = "exited" => pc = "spawn"]_vars
  /\ [][pc = "spawn" => sent' = sent]_vars
  /\ [][Len(sent') > Len(sent) =>
         /\ pc = "send"
         /\ NoThreadRunning
         /\ EveryOwedMatchRecorded]_vars

\* The creation of a later thread failed while an earlier thread of the same
\* match was still at work on a list that holds Nodes: the process has
\* ended and nothing was sent.
C11_Witness ==
  /\ pc = "exited"
  /\ GBLnumCores >= 2
  /\ TotalSize >= 2
  /\ \E w \in Cores : GBLsearchThreads[w].pc \in {"scan", "lock", "append"}
  /\ sent = <<>>

(***************************************************************************)
(* The response text of a sequence of Matches: one line per Match, in      *)
(* order, the numbers written as in the comment of processCommand          *)
(* ("uint64_in_decimal uint8_in_decimal\n").                               *)
(***************************************************************************)
DecimalText ==
  [n \in 0 .. 9 |->
     <<(<<"0", "1", "2", "3", "4", "5", "6", "7", "8", "9">>)[n + 1]>>]

RECURSIVE ExpectedResponse(_)
ExpectedResponse(ms) ==
  IF ms = <<>> THEN <<>>
  ELSE ResponseLine(DecimalText[Head(ms).dbId], DecimalText[Head(ms).distance])
         \o ExpectedResponse(Tail(ms))

\* The number of match commands among the commands passed so far.
MatchesIn(cs) ==
  Cardinality({k \in 1 .. Len(cs) : CommandKind(cs[k]) = "match"})

(***************************************************************************)
(* C12.  Match response: while every send succeeds, what has been sent for *)
(* a match is the lines `<id> <distance>` of the first Matches of the      *)
(* collection, in the order of the collection, and of all of them when the *)
(* send loop ends; nothing is sent after the last one and nothing when the *)
(* collection is empty; bytes are sent only by the send loop.  For the     *)
(* first match of a connection this gives the whole of what the client has *)
(* received.                                                               *)
(***************************************************************************)
C12_MatchResponse ==
  /\ []( pc = "send" /\ MatchesIn(cmds) = 1 =>
            sent = ExpectedResponse(SubSeq(GBLsearchResults, 1, i)) )
  /\ []( MatchesIn(cmds) = 0 => sent = <<>> )
  /\ [][ pc = "send" /\ pc' = "send" =>
            /\ i' = i + 1
            /\ sent' = sent \o ExpectedResponse(<<GBLsearchResults[i']>>)
            /\ GBLsearchResults' = GBLsearchResults ]_vars
  /\ [][ pc = "send" /\ i >= Len(GBLsearchResults) =>
            sent' = sent /\ pc' = "lines" ]_vars
  /\ [][ Len(sent') > Len(sent) => pc = "send" ]_vars

\* The first match of a connection, on several lists, returned two Matches
\* and both lines have been sent.
C12_Witness ==
  /\ AllSent
  /\ MatchesIn(cmds) = 1
  /\ GBLnumCores >= 2
  /\ Len(GBLsearchResults) = 2
  /\ Len(sent) = 8

(***************************************************************************)
(* C13.  Add acknowledgement: processing an add command sends the client   *)
(* a response, which is "Inserted OK\n" or "Failed to insert: reason\n"     *)
(* (the comment of processCommand).                                        *)
(***************************************************************************)
InsertedOK == <<"I","n","s","e","r","t","e","d"," ","O","K">> \o <<NL>>
FailedToInsert ==
  <<"F","a","i","l","e","d"," ","t","o"," ","i","n","s","e","r","t",":"," ">>

\* bytes starts with the sequence start.
StartsWith(bytes, start) ==
  Len(bytes) >= Len(start) /\ SubSeq(bytes, 1, Len(start)) = start

C13_AddAcknowledged ==
  [][ added' # added =>
        LET response == SubSeq(sent', Len(sent) + 1, Len(sent'))
        IN  \/ response = InsertedOK
            \/ StartsWith(response, FailedToInsert) /\ response[Len(response)] = NL
    ]_vars

(***************************************************************************)
(* C14.  Sequential command processing: the commands passed to             *)
(* processCommand on a connection are always the first lines of its        *)
(* stream, each once and in stream order; a command is passed, and input   *)
(* is read, only when no command is in progress: the main flow is in the   *)
(* loops of readCommands, every thread of an earlier match has been        *)
(* joined, the mutex is free and no response is left to send.  While a     *)
(* match is in progress it is the last command passed.                     *)
(***************************************************************************)
CommandInProgress == pc \in {"spawn", "join", "send"}

C14_Sequential ==
  /\ [](pc # "accept" => CmdsArePrefix)
  /\ [](CommandInProgress =>
          /\ cmds # <<>>
          /\ cmds[Len(cmds)] = current
          /\ CommandKind(current) = "match")
  /\ [][ Len(cmds') = Len(cmds) + 1 \/ pos' > pos =>
          /\ ~CommandInProgress
          /\ NoThreadRunning
          /\ GBLsearchResultsMutex = NoThread ]_vars

\* The third command of a connection, a match, is in progress with a thread
\* running, after an add and an earlier match that was answered.
C14_Witness ==
  /\ pc = "join"
  /\ Len(cmds) = 3
  /\ sent # <<>>
  /\ \E w \in Cores : GBLsearchThreads[w].pc = "scan"

(***************************************************************************)
(* C15.  Mutual exclusion on the results: at most one thread at a time is  *)
(* between pthread_mutex_lock and pthread_mutex_unlock, and it is the      *)
(* thread recorded as holder of the mutex; the results change only by the  *)
(* clear at the start of search and by the append of one Match by the      *)
(* thread that holds the mutex, which releases it; when search has         *)
(* returned the results hold as many Matches as the lists hold Nodes that  *)
(* pass the test of searchThread.                                          *)
(***************************************************************************)
InCriticalSection == {w \in Cores : GBLsearchThreads[w].pc = "append"}

AppendsUnderMutex ==
  GBLsearchResults' # GBLsearchResults =>
    \/ GBLsearchResults' = <<>> /\ pc = "lines" /\ pc' = "spawn"
    \/ /\ Len(GBLsearchResults') = Len(GBLsearchResults) + 1
       /\ SubSeq(GBLsearchResults', 1, Len(GBLsearchResults)) = GBLsearchResults
       /\ GBLsearchResultsMutex \in Cores
       /\ InCriticalSection = {GBLsearchResultsMutex}
       /\ GBLsearchThreads'[GBLsearchResultsMutex] # GBLsearchThreads[GBLsearchResultsMutex]
       /\ GBLsearchResultsMutex' = NoThread

C15_MutualExclusion ==
  /\ [](Cardinality(InCriticalSection) <= 1)
  /\ [](\A w \in Cores : w \in InCriticalSection <=> GBLsearchResultsMutex = w)
  /\ [][AppendsUnderMutex]_vars
  /\ [](SearchReturned =>
          Len(GBLsearchResults)
            = Cardinality({pl \in Places :
                WithinDistance(Distance(queryHash, NodeIn(pl)), maxDistance)}))

\* One thread holds the mutex and is about to append while another thread
\* of the same match waits in pthread_mutex_lock.
C15_Witness ==
  /\ \E w \in Cores : GBLsearchResultsMutex = w /\ w \in InCriticalSection
  /\ \E w \in Cores : GBLsearchThreads[w].pc = "lock"

(***************************************************************************)
(* C16.  Shard coverage: when the loop that creates the threads is done    *)
(* there is one thread per list, GBLnumCores in all; the thread with index *)
(* w works on list w and on no other; it starts at the first Node and goes *)
(* from one Node to the next, leaving out none and coming back to none,    *)
(* and exits only after the last Node of its list.                         *)
(***************************************************************************)
AtWork(w) == GBLsearchThreads[w].pc \in {"scan", "lock", "append"}

\* What the step does to thread w is a step of one pass over list w.
OnePass(w) ==
  LET before == GBLsearchThreads[w]
      after == GBLsearchThreads'[w]
      size == Len(GBLnodeLists[w])
  IN  \/ after = before
      \/ /\ ~AtWork(w)                       \* created
         /\ pc = "spawn" /\ i = w
         /\ after.pc = "scan" /\ after.it = 1 /\ after.nodeList = w
      \/ /\ AtWork(w)                        \* same Node
         /\ after.pc \in {"lock", "append"}
         /\ after.it = before.it /\ after.nodeList = w
         /\ before.it <= size
      \/ /\ AtWork(w)                        \* next Node
         /\ after.pc = "scan"
         /\ after.it = before.it + 1 /\ after.nodeList = w
         /\ after.it <= size
      \/ /\ AtWork(w)                        \* past the last Node
         /\ after.pc = "done"
         /\ before.it >= size
      \/ /\ before.pc = "done"               \* joined
         /\ after.pc = "idle"

C16_ShardCoverage ==
  /\ [](pc = "join" => \A w \in Cores : w >= i => GBLsearchThreads[w].pc # "idle")
  /\ [](\A w \in Cores :
          AtWork(w) =>
            /\ GBLsearchThreads[w].nodeList = w
            /\ GBLsearchThreads[w].it >= 1
            /\ GBLsearchThreads[w].it <= Len(GBLnodeLists[w]) + 1)
  /\ [][GBLnodeLists' = GBLnodeLists => \A w \in Cores : OnePass(w)]_vars

\* Three threads at work, each on its own list, none of the lists empty;
\* the thread of list 0 is at its second Node.
C16_Witness ==
  /\ pc = "join"
  /\ GBLnumCores = 3
  /\ \A w \in Cores : AtWork(w) /\ Len(GBLnodeLists[w]) >= 1
  /\ GBLsearchThreads[0].it = 2

(***************************************************************************)
(* C17.  Store unchanged across a match: no step taken while a match is in *)
(* progress or while a thread is at work changes a list, so every list is  *)
(* the same when the match has completed as when it started; the lists     *)
(* change only by an add command, processed in the line loop when no       *)
(* thread exists.                                                          *)
(***************************************************************************)
C17_StoreUnchanged ==
  /\ [][ CommandInProgress \/ ~NoThreadRunning =>
            GBLnodeLists' = GBLnodeLists /\ added' = added ]_vars
  /\ [][ GBLnodeLists' # GBLnodeLists =>
            /\ pc = "lines" /\ pc' = "lines"
            /\ NoThreadRunning
            /\ Len(cmds') = Len(cmds) + 1
            /\ CommandKind(cmds'[Len(cmds')]) = "add" ]_vars

\* The second match of a connection has been answered, after an add and a
\* first match on the same connection, on a store of three lists.
C17_Witness ==
  /\ pc = "send"
  /\ GBLnumCores = 3
  /\ MatchesIn(cmds) = 2
  /\ TotalSize >= 3

(***************************************************************************)
(* C18.  The results are per match: they are empty when the first thread   *)
(* of a match is about to be created, and while the match is in progress   *)
(* they hold only Matches of stored Nodes that pass the test for the query *)
(* of this match, no Match more often than there are such Nodes: nothing   *)
(* is left of an earlier match, answered in full or cut short by a failed  *)
(* send, on this connection or an earlier one.                             *)
(***************************************************************************)
OnlyOwnMatches ==
  GBLsearchResults # <<>> =>
    LET q == queryHash
        d == maxDistance
        found == [pl \in Places |->
                    Match(NodeIn(pl).dbId, Distance(q, NodeIn(pl)))]
        own == {pl \in Places : WithinDistance(found[pl].distance, d)}
    IN  \A m \in Range(GBLsearchResults) :
          Count(GBLsearchResults, m)
            <= Cardinality({pl \in own : found[pl] = m})

C18_ResultsPerMatch ==
  /\ (pc = "spawn" /\ i = 0 => GBLsearchResults = <<>>)
  /\ (CommandInProgress => OnlyOwnMatches)

\* The second match of a connection has returned no Match, on a store that
\* holds Nodes, after the response to the first match was cut short inside
\* a line by a failed send.
C18_Witness ==
  /\ SearchReturned
  /\ MatchesIn(cmds) = 2
  /\ sent # <<>>
  /\ sent[Len(sent)] # NL
  /\ GBLsearchResults = <<>>
  /\ TotalSize >= 1

(***************************************************************************)
(* C20.  Exact list sizes: with two or more lists, after k add commands on *)
(* the store that was empty at the start, list 0 holds ceil(k/2) Nodes and *)
(* every other list floor(k/2), so the sizes never increase with the       *)
(* index; the k-th add command puts in one Node when k is odd and one in   *)
(* each of the lists 1 .. N-1 when k is even.  With one list, list 0 holds *)
(* k Nodes.                                                                *)
(***************************************************************************)
ExpectedSize(c, k) ==
  IF GBLnumCores = 1 THEN k
  ELSE IF c = 0 THEN (k + 1) \div 2
  ELSE k \div 2

ThreadIn(w, at) == w \in Cores /\ GBLsearchThreads[w].pc \in at

C19_MatchCompletes ==
  /\ (pc = "join") ~> (pc = "send")
  /\ \A w \in 0 .. MaxCores - 1 :
       /\ (pc = "join" /\ ThreadIn(w, {"scan", "lock", "append"}))
            ~> ThreadIn(w, {"done", "idle"})
       /\ (pc = "join" /\ ThreadIn(w, {"lock"})) ~> ThreadIn(w, {"append"})

\* search waits in its first join for a thread that waits for the mutex,
\* which another thread holds.
C19_Witness ==
  /\ pc = "join"
  /\ i = 0
  /\ GBLsearchThreads[0].pc = "lock"
  /\ GBLsearchResultsMutex \in Cores \ {0}

====
